---- MODULE Spec2Model ----
(***************************************************************************)
(* A model of UserRepository (src/src/repositories/user.py) and of the     *)
(* post route handlers that resolve the caller (src/src/endpoints/post.py).*)
(* The MongoDB collections are sequences of documents in storage order;    *)
(* GridFS "imgs_profile" is the set of the ids of the stored files.        *)
(***************************************************************************)
EXTENDS Integers, Sequences, FiniteSets, TLC

\* ---------------------------------------------------------------- bounds
NumUsers == 2      \* users registered before the social-graph operations run
NumPosts == 2      \* posts existing before the like operations run
MaxIds == 3        \* ObjectIds the users collection hands out (signups)
MaxSubs == 3       \* subscriptions stored at once, over all users
MaxLiked == 2      \* likes stored at once, over all users
MaxLikes == 3      \* |likes| of a post stays within this
MaxLimit == 2      \* largest limit / skip given to get_all
MaxFiles == 2      \* files put into imgs_profile besides the default one
NumCalls == 2      \* requests in flight at once
NumLikers == 3     \* users liking at once
ImageUsers == 1    \* users changing their profile image
ImageCalls == 1    \* update_profile_image requests in flight at once

Usernames == {"alice", "bob"}
Procs == 1..NumCalls
PostIds == 1..NumPosts

\* settings.DEFAULT_PROFILE_IMAGE: the id of the placeholder file
DEFAULT_PROFILE_IMAGE == 0

VARIABLES
    users,          \* database["users"]: sequence of user documents
    posts,          \* database["posts"]: sequence of post documents
    imgs_profile,   \* GridFS(database, "imgs_profile"): ids of the stored files
    next_id,        \* next ObjectId of the users collection
    next_file,      \* next ObjectId of imgs_profile
    tokens,         \* usernames embedded in the tokens issued so far
    calls,          \* the requests in flight: what each has done so far
    last,           \* the call that completed last, with what it returned
    prev            \* the call that completed before it

vars == <<users, posts, imgs_profile, next_id, next_file, tokens, calls, last, prev>>

\* ------------------------------------------------------------- documents
\* Python's None, where a document is expected (find_one with no match)
None == [_id |-> 0, username |-> "", profile_image |-> DEFAULT_PROFILE_IMAGE,
         subscriptions |-> <<>>, subscribers |-> <<>>, liked_posts |-> <<>>]

Min(S) == CHOOSE x \in S : \A y \in S : x <= y

RECURSIVE Count(_, _)
Count(s, x) == IF s = <<>> THEN 0
               ELSE (IF Head(s) = x THEN 1 ELSE 0) + Count(Tail(s), x)

Contains(s, x) == \E i \in 1..Len(s) : s[i] = x

\* $push: append one occurrence
Push(s, x) == Append(s, x)

\* a removal that stops at the first occurrence
RECURSIVE PullFirst(_, _)
PullFirst(s, x) == IF s = <<>> THEN <<>>
                   ELSE IF Head(s) = x THEN Tail(s)
                   ELSE <<Head(s)>> \o PullFirst(Tail(s), x)

\* $pull: remove every occurrence
RECURSIVE Pull(_, _)
Pull(s, x) == IF s = <<>> THEN <<>>
              ELSE IF Head(s) = x THEN Pull(Tail(s), x)
              ELSE <<Head(s)>> \o Pull(Tail(s), x)

\* positions of the documents of coll with the given _id / username
ById(coll, id) == {i \in 1..Len(coll) : coll[i]._id = id}
ByUsername(coll, name) == {i \in 1..Len(coll) : coll[i].username = name}

\* collection.find_one(filter): the first match in storage order, or None
FindOne(coll, idx) == IF idx = {} THEN None ELSE coll[Min(idx)]

\* collection.find(limit=limit): limit = 0 is "no limit"
Find(coll, limit) ==
    IF limit = 0 \/ limit >= Len(coll) THEN coll ELSE SubSeq(coll, 1, limit)

\* collection.find_one_and_delete({"_id": id})
FindOneAndDelete(coll, id) ==
    IF ById(coll, id) = {} THEN coll
    ELSE LET k == Min(ById(coll, id))
         IN  SubSeq(coll, 1, k - 1) \o SubSeq(coll, k + 1, Len(coll))

Exists(id) == ById(users, id) # {}
UserDoc(id) == FindOne(users, ById(users, id))
PostDoc(id) == FindOne(posts, ById(posts, id))

NoCall == [op |-> "idle", a |-> 0, b |-> 0, name |-> "", seen |-> 0, pc |-> "idle"]
Quiescent == \A p \in Procs : calls[p].op = "idle"

Result(op, a, b, name, status, ret) ==
    [op |-> op, a |-> a, b |-> b, name |-> name, status |-> status, ret |-> ret,
     n0 |-> 0, s0 |-> <<>>]

NewUser(id, name) ==
    [_id |-> id, username |-> name, profile_image |-> DEFAULT_PROFILE_IMAGE,
     subscriptions |-> <<>>, subscribers |-> <<>>, liked_posts |-> <<>>]

\* the state the database is in once NumUsers distinct users have signed up
\* and NumPosts posts have been created, nothing else done
Names == <<"alice", "bob", "carol", "dave", "erin">>
SignedUp(n) == [i \in 1..n |-> NewUser(i, Names[i])]
Posted == [i \in 1..NumPosts |-> [_id |-> i, likes |-> 0]]

\* ------------------------------------------------------------ the directory
\* check_username
check_username(name) == ByUsername(users, name) # {}

\* get_by_username: find_one's result, None included
get_by_username(name) == FindOne(users, ByUsername(users, name))

\* the lookup with the raise left out: None comes back to the caller
get_by_id_optional(id) == [status |-> "ok", ret |-> <<UserDoc(id)>>]

\* get_by_id: the document, or HTTP 404 raised
get_by_id(id) ==
    IF UserDoc(id) # None THEN [status |-> "ok", ret |-> <<UserDoc(id)>>]
    ELSE [status |-> "404", ret |-> <<>>]

\* get_all: find(limit=limit); skip is accepted and not used
get_all(limit, skip) == Find(users, limit)

\* create: insert_one appends the new document under a fresh _id
create(coll, id, name) == Append(coll, NewUser(id, name))

\* update_username: $set username on the document with this _id
SetUsername(coll, id, name) ==
    [i \in 1..Len(coll) |->
        IF ById(coll, id) # {} /\ i = Min(ById(coll, id))
        THEN [coll[i] EXCEPT !.username = name] ELSE coll[i]]

\* Auth.encode_token / Auth.decode_token: the token embeds the username; a
\* token with a bad signature or past its expiry (here "") raises HTTP 401
encode_token(name) == name
decode_token(token) ==
    IF token = "" THEN [status |-> "401", username |-> ""]
    ELSE [status |-> "ok", username |-> token]

\* get_current_user: decode_token, then get_by_username's result as it is
get_current_user(token) ==
    IF decode_token(token).status # "ok" THEN [status |-> "401", ret |-> <<>>]
    ELSE [status |-> "ok", ret |-> <<get_by_username(decode_token(token).username)>>]

Pending == Cardinality({p \in Procs : calls[p].op = "signup"})

\* signup, first half: check_username; a taken name returns an HTTPException
SignupCheck(p, name) ==
    /\ calls[p].op = "idle"
    /\ IF check_username(name)
       THEN /\ last' = Result("signup", 0, 0, name, "401", <<>>)
            /\ UNCHANGED calls
       ELSE /\ next_id + Pending <= MaxIds
            /\ calls' = [calls EXCEPT ![p] = [NoCall EXCEPT !.op = "signup", !.name = name, !.pc = "create"]]
            /\ UNCHANGED last
    /\ UNCHANGED <<users, posts, imgs_profile, next_id, next_file, tokens, prev>>

\* signup, second half: create inserts the user and reads it back
SignupCreate(p) ==
    /\ calls[p].op = "signup"
    /\ users' = create(users, next_id, calls[p].name)
    /\ next_id' = next_id + 1
    /\ calls' = [calls EXCEPT ![p] = NoCall]
    /\ last' = Result("signup", next_id, 0, calls[p].name, "ok",
                      <<FindOne(users', ById(users', next_id))>>)
    /\ UNCHANGED <<posts, imgs_profile, next_file, tokens, prev>>

UpdateUsername(id, name) ==
    /\ users' = SetUsername(users, id, name)
    /\ last' = Result("update_username", id, 0, name, "ok", <<FindOne(users', ById(users', id))>>)
    /\ UNCHANGED <<posts, imgs_profile, next_id, next_file, tokens, calls, prev>>

Delete(id) ==
    /\ users' = FindOneAndDelete(users, id)
    /\ last' = Result("delete", id, 0, "", "ok", <<>>)
    /\ UNCHANGED <<posts, imgs_profile, next_id, next_file, tokens, calls, prev>>

GetById(id) ==
    /\ last' = Result("get_by_id", id, 0, "", get_by_id(id).status, get_by_id(id).ret)
    /\ UNCHANGED <<users, posts, imgs_profile, next_id, next_file, tokens, calls, prev>>

GetByUsername(name) ==
    /\ last' = Result("get_by_username", 0, 0, name, "ok", <<get_by_username(name)>>)
    /\ UNCHANGED <<users, posts, imgs_profile, next_id, next_file, tokens, calls, prev>>

GetAll(limit, skip) ==
    /\ last' = Result("get_all", limit, skip, "", "ok", get_all(limit, skip))
    /\ UNCHANGED <<users, posts, imgs_profile, next_id, next_file, tokens, calls, prev>>

\* login, and the token the route then issues for the user it returned
Login(name, password_ok) ==
    /\ IF ~check_username(name) \/ ~password_ok
       THEN /\ last' = Result("login", 0, 0, name, "401", <<>>)
            /\ UNCHANGED tokens
       ELSE /\ last' = Result("login", 0, 0, name, "ok", <<get_by_username(name)>>)
            /\ tokens' = tokens \cup {encode_token(name)}
    /\ UNCHANGED <<users, posts, imgs_profile, next_id, next_file, calls, prev>>

GetCurrentUser(token) ==
    /\ last' = Result("get_current_user", 0, 0, token,
                      get_current_user(token).status, get_current_user(token).ret)
    /\ UNCHANGED <<users, posts, imgs_profile, next_id, next_file, tokens, calls, prev>>

\* get_feed (as delete_post, create_comment, ...): user = get_current_user(...),
\* then user["_id"], which is a TypeError on None
GetFeed(token) ==
    LET r == get_current_user(token)
    IN  /\ last' = Result("get_feed", IF r.status = "ok" THEN r.ret[1]._id ELSE 0, 0, token,
                          IF r.status # "ok" THEN r.status
                          ELSE IF r.ret[1] = None THEN "TypeError" ELSE "ok",
                          r.ret)
        /\ UNCHANGED <<users, posts, imgs_profile, next_id, next_file, tokens, calls, prev>>

NoResult == Result("none", 0, 0, "", "ok", <<>>)

InitDir ==
    /\ users = <<>>
    /\ posts = <<>>
    /\ imgs_profile = {DEFAULT_PROFILE_IMAGE}
    /\ next_id = 1
    /\ next_file = 1
    /\ tokens = {}
    /\ calls = [p \in Procs |-> NoCall]
    /\ last = NoResult
    /\ prev = NoResult

NextDir ==
    \/ \E p \in Procs, name \in Usernames : SignupCheck(p, name)
    \/ \E p \in Procs : SignupCreate(p)
    \/ \E id \in 1..MaxIds, name \in Usernames : UpdateUsername(id, name)
    \/ \E id \in 1..MaxIds : Delete(id)
    \/ \E id \in 1..MaxIds : GetById(id)
    \/ \E name \in Usernames : GetByUsername(name)
    \/ \E limit \in 0..MaxLimit, skip \in 0..MaxLimit : GetAll(limit, skip)
    \/ \E name \in Usernames, ok \in BOOLEAN : Login(name, ok)
    \/ \E token \in tokens \cup {""} : GetCurrentUser(token)
    \/ \E token \in tokens \cup {""} : GetFeed(token)

SpecDir == InitDir /\ [][NextDir]_vars

\* ------------------------------------------------------------ subscriptions
\* find_one_and_update({"_id": id}, {"$push": {"subscriptions": x}}), and the
\* like: the first document with this _id is changed, none if there is none
PushSubscriptions(coll, id, x) ==
    [i \in 1..Len(coll) |->
        IF ById(coll, id) # {} /\ i = Min(ById(coll, id))
        THEN [coll[i] EXCEPT !.subscriptions = Push(@, x)] ELSE coll[i]]

PushSubscribers(coll, id, x) ==
    [i \in 1..Len(coll) |->
        IF ById(coll, id) # {} /\ i = Min(ById(coll, id))
        THEN [coll[i] EXCEPT !.subscribers = Push(@, x)] ELSE coll[i]]

PullSubscriptions(coll, id, x) ==
    [i \in 1..Len(coll) |->
        IF ById(coll, id) # {} /\ i = Min(ById(coll, id))
        THEN [coll[i] EXCEPT !.subscriptions = Pull(@, x)] ELSE coll[i]]

PullSubscribers(coll, id, x) ==
    [i \in 1..Len(coll) |->
        IF ById(coll, id) # {} /\ i = Min(ById(coll, id))
        THEN [coll[i] EXCEPT !.subscribers = Pull(@, x)] ELSE coll[i]]

\* subscribe: two writes, one document each
subscribe(coll, user_id, sub_user_id) ==
    PushSubscribers(PushSubscriptions(coll, user_id, sub_user_id), sub_user_id, user_id)

\* unsubsribe: two writes, one document each
unsubsribe(coll, user_id, sub_user_id) ==
    PullSubscribers(PullSubscriptions(coll, user_id, sub_user_id), sub_user_id, user_id)

\* __get_sub_helper__: find_one of every id of the list, in order
get_sub_helper(ids) == [i \in 1..Len(ids) |-> UserDoc(ids[i])]
get_subscribers(user_id) == get_sub_helper(UserDoc(user_id).subscribers)
get_subscriptions(user_id) == get_sub_helper(UserDoc(user_id).subscriptions)

RECURSIVE Stored(_, _)
Stored(coll, field) ==
    IF coll = <<>> THEN 0 ELSE Len(Head(coll)[field]) + Stored(Tail(coll), field)

RoomToSubscribe ==
    /\ Stored(users, "subscriptions") < MaxSubs
    /\ Stored(users, "subscribers") < MaxSubs

Subscribe(a, b) ==
    /\ RoomToSubscribe
    /\ users' = subscribe(users, a, b)
    /\ last' = [Result("subscribe", a, b, "", "ok", <<>>)
                  EXCEPT !.n0 = Count(UserDoc(a).subscriptions, b)]
    /\ UNCHANGED <<posts, imgs_profile, next_id, next_file, tokens, calls, prev>>

Unsubsribe(a, b) ==
    /\ users' = unsubsribe(users, a, b)
    /\ last' = [Result("unsubsribe", a, b, "", "ok", <<>>)
                  EXCEPT !.n0 = Count(UserDoc(a).subscriptions, b)]
    /\ UNCHANGED <<posts, imgs_profile, next_id, next_file, tokens, calls, prev>>

GetSubscriptions(a) ==
    /\ last' = Result("get_subscriptions", a, 0, "", "ok", get_subscriptions(a))
    /\ UNCHANGED <<users, posts, imgs_profile, next_id, next_file, tokens, calls, prev>>

GetSubscribers(a) ==
    /\ last' = Result("get_subscribers", a, 0, "", "ok", get_subscribers(a))
    /\ UNCHANGED <<users, posts, imgs_profile, next_id, next_file, tokens, calls, prev>>

InitSocial(n) ==
    /\ users = SignedUp(n)
    /\ posts = Posted
    /\ imgs_profile = {DEFAULT_PROFILE_IMAGE}
    /\ next_id = n + 1
    /\ next_file = 1
    /\ tokens = {}
    /\ calls = [p \in Procs |-> NoCall]
    /\ last = NoResult
    /\ prev = NoResult

InitSub == InitSocial(NumUsers)

NextSub ==
    \/ \E a \in 1..NumUsers, b \in 1..NumUsers : Subscribe(a, b)
    \/ \E a \in 1..NumUsers, b \in 1..NumUsers : Unsubsribe(a, b)
    \/ \E a \in 1..NumUsers : GetSubscriptions(a)
    \/ \E a \in 1..NumUsers : GetSubscribers(a)

SpecSub == InitSub /\ [][NextSub]_vars

\* the same two calls with their two writes as separate steps of a request
SubscribeFirst(p, a, b) ==
    /\ calls[p].op = "idle"
    /\ RoomToSubscribe
    /\ users' = PushSubscriptions(users, a, b)
    /\ calls' = [calls EXCEPT ![p] = [NoCall EXCEPT !.op = "subscribe", !.a = a, !.b = b, !.pc = "second"]]
    /\ UNCHANGED <<posts, imgs_profile, next_id, next_file, tokens, last, prev>>

SubscribeSecond(p) ==
    /\ calls[p].op = "subscribe"
    /\ users' = PushSubscribers(users, calls[p].b, calls[p].a)
    /\ calls' = [calls EXCEPT ![p] = NoCall]
    /\ last' = Result("subscribe", calls[p].a, calls[p].b, "", "ok", <<>>)
    /\ UNCHANGED <<posts, imgs_profile, next_id, next_file, tokens, prev>>

UnsubsribeFirst(p, a, b) ==
    /\ calls[p].op = "idle"
    /\ users' = PullSubscriptions(users, a, b)
    /\ calls' = [calls EXCEPT ![p] = [NoCall EXCEPT !.op = "unsubsribe", !.a = a, !.b = b, !.pc = "second"]]
    /\ UNCHANGED <<posts, imgs_profile, next_id, next_file, tokens, last, prev>>

UnsubsribeSecond(p) ==
    /\ calls[p].op = "unsubsribe"
    /\ users' = PullSubscribers(users, calls[p].b, calls[p].a)
    /\ calls' = [calls EXCEPT ![p] = NoCall]
    /\ last' = Result("unsubsribe", calls[p].a, calls[p].b, "", "ok", <<>>)
    /\ UNCHANGED <<posts, imgs_profile, next_id, next_file, tokens, prev>>

NextSubConc ==
    \/ \E p \in Procs, a \in 1..NumUsers, b \in 1..NumUsers : SubscribeFirst(p, a, b)
    \/ \E p \in Procs : SubscribeSecond(p)
    \/ \E p \in Procs, a \in 1..NumUsers, b \in 1..NumUsers : UnsubsribeFirst(p, a, b)
    \/ \E p \in Procs : UnsubsribeSecond(p)

SpecSubConc == InitSub /\ [][NextSubConc]_vars

\* C1: once subscribe(A,B) has completed, get_subscriptions(A) holds B's record
\* and get_subscribers(B) holds A's; once unsubsribe(A,B) has completed, no
\* occurrence of B is left in A.subscriptions and none of A in B.subscribers
C1_SubscribeThenUnsubscribe ==
    /\ last.op = "subscribe" =>
         /\ Contains(get_subscriptions(last.a), UserDoc(last.b))
         /\ Contains(get_subscribers(last.b), UserDoc(last.a))
    /\ last.op = "unsubsribe" =>
         /\ ~Contains(UserDoc(last.a).subscriptions, last.b)
         /\ ~Contains(UserDoc(last.b).subscribers, last.a)

\* an unsubsribe(A,B) has completed where B stood twice or more in A.subscriptions
C1_Witness ==
    /\ last.op = "unsubsribe"
    /\ last.n0 >= 2
    /\ last.a # last.b

\* C2: whenever no call is in flight, B stands in A.subscriptions as often as
\* A stands in B.subscribers
C2_SymmetricWhenQuiescent ==
    Quiescent =>
        \A a \in 1..NumUsers, b \in 1..NumUsers :
            Count(UserDoc(a).subscriptions, b) = Count(UserDoc(b).subscribers, a)

\* -------------------------------------------------------------------- likes
\* find_one_and_update({"_id": user_id}, {"$push": {"liked_posts": post_id}})
PushLiked(coll, id, x) ==
    [i \in 1..Len(coll) |->
        IF ById(coll, id) # {} /\ i = Min(ById(coll, id))
        THEN [coll[i] EXCEPT !.liked_posts = Push(@, x)] ELSE coll[i]]

\* find_one_and_update({"_id": user_id}, {"$pull": {"liked_posts": post_id}})
PullLiked(coll, id, x) ==
    [i \in 1..Len(coll) |->
        IF ById(coll, id) # {} /\ i = Min(ById(coll, id))
        THEN [coll[i] EXCEPT !.liked_posts = Pull(@, x)] ELSE coll[i]]

\* a lost update: the counter is written, not incremented
SetLikes(coll, id, d) ==
    [i \in 1..Len(coll) |->
        IF ById(coll, id) # {} /\ i = Min(ById(coll, id))
        THEN [coll[i] EXCEPT !.likes = d] ELSE coll[i]]

\* find_one_and_update({"_id": post_id}, {"$inc": {"likes": d}}): one atomic
\* write of the post document
IncLikes(coll, id, d) ==
    [i \in 1..Len(coll) |->
        IF ById(coll, id) # {} /\ i = Min(ById(coll, id))
        THEN [coll[i] EXCEPT !.likes = @ + d] ELSE coll[i]]

SetLike(post_id, user_id) ==
    /\ Stored(users, "liked_posts") < MaxLiked
    /\ PostDoc(post_id).likes < MaxLikes
    /\ users' = PushLiked(users, user_id, post_id)
    /\ posts' = IncLikes(posts, post_id, 1)
    /\ prev' = last
    /\ last' = [Result("set_like", post_id, user_id, "", "ok",
                       <<FindOne(posts', ById(posts', post_id))>>)
                  EXCEPT !.n0 = PostDoc(post_id).likes,
                         !.s0 = UserDoc(user_id).liked_posts]
    /\ UNCHANGED <<imgs_profile, next_id, next_file, tokens, calls>>

UnsetLike(post_id, user_id) ==
    /\ PostDoc(post_id).likes > -MaxLikes
    /\ users' = PullLiked(users, user_id, post_id)
    /\ posts' = IncLikes(posts, post_id, -1)
    /\ prev' = last
    /\ last' = [Result("unset_like", post_id, user_id, "", "ok",
                       <<FindOne(posts', ById(posts', post_id))>>)
                  EXCEPT !.n0 = PostDoc(post_id).likes,
                         !.s0 = UserDoc(user_id).liked_posts]
    /\ UNCHANGED <<imgs_profile, next_id, next_file, tokens, calls>>

InitLike == InitSocial(NumUsers)

NextLike ==
    \/ \E post_id \in PostIds, user_id \in 1..NumUsers : SetLike(post_id, user_id)
    \/ \E post_id \in PostIds, user_id \in 1..NumUsers : UnsetLike(post_id, user_id)

SpecLike == InitLike /\ [][NextLike]_vars

\* set_like with its two writes as separate steps; every user calls it at most
\* once, so the calls in flight come from distinct users
Likers == 1..NumLikers

SetLikePush(user_id, post_id) ==
    /\ calls[user_id].op = "idle"
    /\ users' = PushLiked(users, user_id, post_id)
    /\ calls' = [calls EXCEPT ![user_id] =
                    [NoCall EXCEPT !.op = "set_like", !.a = post_id, !.b = user_id, !.pc = "inc"]]
    /\ UNCHANGED <<posts, imgs_profile, next_id, next_file, tokens, last, prev>>

SetLikeInc(user_id) ==
    /\ calls[user_id].pc = "inc"
    /\ posts' = IncLikes(posts, calls[user_id].a, 1)
    /\ calls' = [calls EXCEPT ![user_id].pc = "done"]
    /\ last' = Result("set_like", calls[user_id].a, user_id, "", "ok",
                      <<FindOne(posts', ById(posts', calls[user_id].a))>>)
    /\ UNCHANGED <<users, imgs_profile, next_id, next_file, tokens, prev>>

InitLikeConc ==
    /\ users = SignedUp(NumLikers)
    /\ posts = Posted
    /\ imgs_profile = {DEFAULT_PROFILE_IMAGE}
    /\ next_id = NumLikers + 1
    /\ next_file = 1
    /\ tokens = {}
    /\ calls = [u \in Likers |-> NoCall]
    /\ last = NoResult
    /\ prev = NoResult

NextLikeConc ==
    \/ \E user_id \in Likers, post_id \in PostIds : SetLikePush(user_id, post_id)
    \/ \E user_id \in Likers : SetLikeInc(user_id)

SpecLikeConc == InitLikeConc /\ [][NextLikeConc]_vars

\* the users whose set_like(post_id, .) is in flight / has completed
Liking(post_id) == {u \in Likers : calls[u].op = "set_like" /\ calls[u].a = post_id}

\* C3: set_like(P,U) raises P.likes by exactly 1 and leaves P in U.liked_posts,
\* and an unset_like(P,U) right after it restores P.likes and U.liked_posts
C3_UnsetLikeInvertsSetLike ==
    /\ last.op = "set_like" =>
         /\ PostDoc(last.a).likes = last.n0 + 1
         /\ Contains(UserDoc(last.b).liked_posts, last.a)
    /\ (last.op = "unset_like" /\ prev.op = "set_like" /\ prev.a = last.a /\ prev.b = last.b) =>
         /\ PostDoc(last.a).likes = prev.n0
         /\ UserDoc(last.b).liked_posts = prev.s0

\* C8: once every set_like call has completed, P.likes has grown by the number
\* of calls made on P, and P is in the liked_posts of every caller
C8_NoLostLike ==
    (\A u \in Likers : calls[u].pc # "inc") =>
        \A post_id \in PostIds :
            /\ PostDoc(post_id).likes = Cardinality(Liking(post_id))
            /\ \A u \in Liking(post_id) : Contains(UserDoc(u).liked_posts, post_id)

\* every user has liked the same post, all calls overlapping, all completed
C8_Witness ==
    /\ \A u \in Likers : calls[u].pc = "done" /\ calls[u].a = 1
    /\ PostDoc(1).likes = NumLikers

\* C10: P.likes is the number of users whose liked_posts holds P, no
\* liked_posts holds P twice, and P.likes is never negative
C10_LikesMatchLikedSets ==
    \A post_id \in PostIds :
        /\ PostDoc(post_id).likes =
              Cardinality({u \in 1..NumUsers : Contains(UserDoc(u).liked_posts, post_id)})
        /\ \A u \in 1..NumUsers : Count(UserDoc(u).liked_posts, post_id) <= 1
        /\ PostDoc(post_id).likes >= 0

\* ------------------------------------------------------------ profile images
\* get_file_id: imgs_profile.put stores the image under a fresh id
GetFileId ==
    /\ next_file <= MaxFiles
    /\ imgs_profile' = imgs_profile \cup {next_file}
    /\ next_file' = next_file + 1
    /\ last' = Result("get_file_id", next_file, 0, "", "ok", <<>>)
    /\ UNCHANGED <<users, posts, next_id, tokens, calls, prev>>

\* the delete with the test on the placeholder left out
delete_any(files, old) == files \ {old}

\* update_profile_image, lines 179-181: the old file is deleted unless it is
\* the placeholder (GridFS.delete of an absent id deletes nothing)
delete_old(files, old) ==
    IF old # DEFAULT_PROFILE_IMAGE THEN files \ {old} ELSE files

\* find_one_and_update({"_id": user_id}, {"$set": {"profile_image": file_id}})
SetProfileImage(coll, id, file_id) ==
    [i \in 1..Len(coll) |->
        IF ById(coll, id) # {} /\ i = Min(ById(coll, id))
        THEN [coll[i] EXCEPT !.profile_image = file_id] ELSE coll[i]]

\* update_profile_image, line 177: read the user document
UpdateProfileImageRead(p, user_id, file_id) ==
    /\ calls[p].op = "idle"
    /\ calls' = [calls EXCEPT ![p] =
                    [NoCall EXCEPT !.op = "update_profile_image", !.a = user_id, !.b = file_id,
                                   !.seen = UserDoc(user_id).profile_image, !.pc = "delete"]]
    /\ UNCHANGED <<users, posts, imgs_profile, next_id, next_file, tokens, last, prev>>

\* lines 179-181
UpdateProfileImageDelete(p) ==
    /\ calls[p].pc = "delete"
    /\ imgs_profile' = delete_old(imgs_profile, calls[p].seen)
    /\ calls' = [calls EXCEPT ![p].pc = "update"]
    /\ UNCHANGED <<users, posts, next_id, next_file, tokens, last, prev>>

\* lines 183-187
UpdateProfileImageUpdate(p) ==
    /\ calls[p].pc = "update"
    /\ users' = SetProfileImage(users, calls[p].a, calls[p].b)
    /\ calls' = [calls EXCEPT ![p] = NoCall]
    /\ last' = [Result("update_profile_image", calls[p].a, calls[p].b, "", "ok",
                       <<FindOne(users', ById(users', calls[p].a))>>)
                  EXCEPT !.n0 = calls[p].seen]
    /\ UNCHANGED <<posts, imgs_profile, next_id, next_file, tokens, prev>>

ImageProcs == 1..ImageCalls

InitImage ==
    /\ users = SignedUp(ImageUsers)
    /\ posts = Posted
    /\ imgs_profile = {DEFAULT_PROFILE_IMAGE}
    /\ next_id = ImageUsers + 1
    /\ next_file = 1
    /\ tokens = {}
    /\ calls = [p \in ImageProcs |-> NoCall]
    /\ last = NoResult
    /\ prev = NoResult

NextImage ==
    \/ GetFileId
    \/ \E p \in ImageProcs, user_id \in 1..ImageUsers, file_id \in 0..(next_file - 1) :
          UpdateProfileImageRead(p, user_id, file_id)
    \/ \E p \in ImageProcs : UpdateProfileImageDelete(p)
    \/ \E p \in ImageProcs : UpdateProfileImageUpdate(p)

SpecImage == InitImage /\ [][NextImage]_vars

\* the placeholder file is stored; a call that is past its delete and has
\* not yet written finds its old, non-placeholder file gone; once the call has
\* completed the user holds the new reference and the old file is gone
C9_State ==
    /\ DEFAULT_PROFILE_IMAGE \in imgs_profile
    /\ \A p \in ImageProcs :
         (calls[p].pc = "update" /\ calls[p].seen # DEFAULT_PROFILE_IMAGE)
            => calls[p].seen \notin imgs_profile
    /\ last.op = "update_profile_image" =>
         /\ UserDoc(last.a).profile_image = last.b
         /\ last.n0 # DEFAULT_PROFILE_IMAGE => last.n0 \notin imgs_profile

\* a file leaves imgs_profile only in the delete step of a call whose user
\* held that file, and never the placeholder
C9_Step ==
    \A f \in imgs_profile \ imgs_profile' :
        /\ f # DEFAULT_PROFILE_IMAGE
        /\ \E p \in ImageProcs : /\ calls[p].pc = "delete"
                            /\ calls'[p].pc = "update"
                            /\ calls[p].seen = f

\* C9: update_profile_image deletes a file only as the non-placeholder old
\* image of the user, before it writes the new reference (C9_Step, and
\* C9_State in every state); the placeholder file is never deleted
C9_OldImageDeletedFirst == []C9_State /\ [][C9_Step]_vars

\* a call has completed that replaced a stored, non-placeholder image by
\* another stored image
C9_Witness ==
    /\ last.op = "update_profile_image"
    /\ last.n0 # DEFAULT_PROFILE_IMAGE
    /\ last.n0 # last.b
    /\ last.b \in imgs_profile
    /\ last.n0 \notin imgs_profile

\* ------------------------------------------------- claims on the directory
\* C4: no two documents of the users collection carry the same username, and
\* a signup that completed with a new document left that name on one document
C4_UsernamesUnique ==
    /\ \A i \in 1..Len(users), j \in 1..Len(users) :
          i # j => users[i].username # users[j].username
    /\ (last.op = "signup" /\ last.status = "ok") =>
          Cardinality(ByUsername(users, last.name)) = 1

\* C5: get_current_user never hands None to its caller, and no route handler
\* goes on with an unresolved identity: it answers 401 or has a user
C5_UnresolvedTokenIsUnauthorized ==
    /\ (last.op = "get_current_user" /\ last.status = "ok") => last.ret[1] # None
    /\ last.op = "get_feed" => (last.status = "401" \/ (last.status = "ok" /\ Exists(last.a)))

\* C6 as claimed: both lookups answer an absent key with NotFound, never with
\* an empty result
C6_AbsenceIsNotFound ==
    /\ (last.op = "get_by_id" /\ ~Exists(last.a)) => last.status = "404"
    /\ (last.op = "get_by_username" /\ ~check_username(last.name)) => last.status = "404"

\* what the lookup that completed last has answered
C6_State ==
    /\ last.op = "get_by_id" =>
         IF Exists(last.a)
         THEN last.status = "ok" /\ Len(last.ret) = 1 /\ last.ret[1]._id = last.a
              /\ Contains(users, last.ret[1])
         ELSE last.status = "404" /\ last.ret = <<>>
    /\ last.op = "get_by_username" =>
         /\ last.status = "ok"
         /\ Len(last.ret) = 1
         /\ IF check_username(last.name)
            THEN last.ret[1].username = last.name /\ Contains(users, last.ret[1])
            ELSE last.ret[1] = None

\* a step that completes a lookup leaves the users collection as it was
C6_Step == last'.op \in {"get_by_id", "get_by_username"} => users' = users

\* C6 as amended: get_by_id answers an absent id with NotFound and a stored id
\* with its document; get_by_username raises nothing and answers an absent
\* username with None, a stored one with a document of that name; neither
\* changes the users collection
C6_LookupsOfAbsentKeys == []C6_State /\ [][C6_Step]_vars

\* get_by_username has just missed, in a collection that holds users
C6_Witness ==
    /\ users # <<>>
    /\ last.op = "get_by_username"
    /\ ~check_username(last.name)
    /\ last.status = "ok"
    /\ last.ret = <<None>>

\* C7: get_all(limit, skip) with limit >= 1 returns the stored users at
\* positions skip+1 .. min(skip+limit, |S|)
C7_GetAllSkipsAndLimits ==
    (last.op = "get_all" /\ last.a >= 1) =>
        last.ret = SubSeq(users, last.b + 1, Min({last.b + last.a, Len(users)}))

====
